---- MODULE Spec2Model ----
(***************************************************************************)
(* Nature Remo integration for Home Assistant.                             *)
(*                                                                         *)
(*   custom_components/nature_remo/__init__.py   API client, entry setup,  *)
(*                                               entity base classes       *)
(*   custom_components/nature_remo/sensor.py     sensor platform, entities *)
(*   custom_components/nature_remo/config_flow.py config flow, migration   *)
(*   const.py                                    constants                 *)
(*                                                                         *)
(* Five specifications share this module:                                  *)
(*   SpecGet     NatureRemoAPI.get as a function of the two HTTP replies   *)
(*   Spec        entry setup, the update coordinator, refresh tasks and    *)
(*               the sensor entities                                       *)
(*   SpecPoll    the polling cycle of one entry, with fairness             *)
(*   SpecFlow    the config flow, stored config entries and migration      *)
(*   SpecMigrate async_migrate_entry as a function of the stored entry     *)
(*                                                                         *)
(* Python values: a dict is a function (a record when its keys are         *)
(* strings), a list is a sequence, None is the record PyNone.  A call      *)
(* either returns a value, Ok(v), or raises, Raise(exc).  asyncio runs one *)
(* task at a time and switches tasks only at an await, so one action is    *)
(* the code between two awaits.                                            *)
(***************************************************************************)
EXTENDS Integers, Sequences, FiniteSets, TLC

VARIABLES
    \* ---- SpecGet
    get_in,             \* the replies of the two GETs of one NatureRemoAPI.get call
    get_out,            \* what that call returned or raised
    \* ---- SpecMigrate
    mig_in,             \* the entry async_migrate_entry is called with, and
                        \* what the host's update calls do
    mig_out,            \* what the call returned, and the entry after it
    \* ---- Spec
    setup,              \* position of __init__.async_setup_entry
    data,               \* coordinator.data
    last_update_success,\* coordinator.last_update_success
    listeners,          \* the coordinator's listeners, in registration order
    task,               \* the refresh tasks: position and locals of each
    notify,             \* listeners still to call in the running notification
    entities,           \* sensor entities added to hass and not removed
    captured,           \* the appliance or device each entity was constructed with
    platform,           \* outcome of sensor.async_setup_entry
    nfetch,             \* number of NatureRemoAPI.get calls started
    render,             \* the state read made in the last step, None if none
    \* ---- Spec, history
    mixed,              \* whether the halves of coordinator.data are of different fetches
    ret,                \* the get call that ended last: results, failed GETs
    seen,               \* what each listener read when called since the last swap
    lastGood,           \* payload of the successful get that ended last
    \* ---- SpecFlow
    entries,            \* hass.config_entries: the stored entries of the domain, by id
    nextId,             \* id of the next entry created
    flows,              \* the config flows in progress: position and locals of each
    interval            \* update_interval of the coordinator set up for each entry

getVars   == <<get_in, get_out>>
migVars   == <<mig_in, mig_out>>
coordVars == <<setup, data, last_update_success, listeners, task, notify, entities,
               captured, platform, nfetch, render, mixed, ret, seen, lastGood>>
flowVars  == <<entries, nextId, flows, interval>>
vars      == <<getVars, migVars, coordVars, flowVars>>

(***************************************************************************)
(* Bounds of the model.                                                    *)
(***************************************************************************)
MaxLen     == 3     \* longest response array enumerated in SpecGet
MaxFetches == 3     \* NatureRemoAPI.get calls in one run of Spec
MaxEntries == 2     \* config entries created in one run of SpecFlow

(***************************************************************************)
(* Python values.                                                          *)
(***************************************************************************)
PyNone    == [py_none |-> TRUE]
IsNone(v) == v = PyNone
EmptyDict == [k \in {} |-> PyNone]

Ok(v)     == [kind |-> "return", val |-> v]
Raise(e)  == [kind |-> "raise", exc |-> e]
IsOk(r)   == r.kind = "return"

\* d[k] for a dict, a KeyError when k is missing, a TypeError on None.
Subscript(d, k) ==
    IF IsNone(d) THEN Raise("TypeError")
    ELSE IF k \in DOMAIN d THEN Ok(d[k])
    ELSE Raise("KeyError")

(***************************************************************************)
(* The cloud API's replies.  A GET either fails in transport or gives a    *)
(* status and, for a 200, a JSON array.                                    *)
(***************************************************************************)
TransportError == [kind |-> "error"]
Http(status)   == [kind |-> "http", status |-> status]
Http200(body)  == [kind |-> "http", status |-> 200, body |-> body]

(***************************************************************************)
(* NatureRemoAPI.get, __init__.py 225-255.                                 *)
(***************************************************************************)

\* {x["id"]: x for x in array} with first-wins insertion: what a setdefault
\* loop would build.
RECURSIVE KeyByIdFirstWins(_)
KeyByIdFirstWins(arr) ==
    IF arr = << >> THEN EmptyDict
    ELSE LET m == KeyByIdFirstWins(SubSeq(arr, 1, Len(arr) - 1))
             x == arr[Len(arr)]
         IN  [k \in DOMAIN m \cup {x.id} |-> IF k \in DOMAIN m THEN m[k] ELSE x]

\* {x["id"]: x for x in array}: the elements are inserted in array order and
\* an insertion under a key already present replaces the value.
RECURSIVE KeyById(_)
KeyById(arr) ==
    IF arr = << >> THEN EmptyDict
    ELSE LET m == KeyById(SubSeq(arr, 1, Len(arr) - 1))
             x == arr[Len(arr)]
         IN  [k \in DOMAIN m \cup {x.id} |-> IF k = x.id THEN x ELSE m[k]]

\* One try block of get: session.get raises on a transport failure,
\* raise_for_status raises on a status of 400 or more, x["id"] raises a
\* KeyError on an element without an id; the except clause logs and re-raises.
TryGet(reply) ==
    IF reply.kind = "error" THEN Raise("ClientConnectionError")
    ELSE IF reply.status >= 400 THEN Raise("ClientResponseError")
    ELSE IF \E i \in 1..Len(reply.body) : "id" \notin DOMAIN reply.body[i]
         THEN Raise("KeyError")
    ELSE Ok(KeyById(reply.body))

\* The devices half of get that keeps the appliances when the devices GET
\* fails, and returns them with no devices.
GetDevicesPartial(appliances, reply) ==
    LET d == TryGet(reply)
    IN  IF IsOk(d) THEN Ok([appliances |-> appliances, devices |-> d.val])
        ELSE Ok([appliances |-> appliances, devices |-> EmptyDict])

\* The second half of get, entered with the local appliances bound: the
\* devices try block and the return statement.
GetDevices(appliances, reply) ==
    LET d == TryGet(reply)
    IN  IF IsOk(d) THEN Ok([appliances |-> appliances, devices |-> d.val])
        ELSE d

\* get from call to return, given the replies of its two GETs.
Get(ra, rd) ==
    LET a == TryGet(ra)
    IN  IF IsOk(a) THEN GetDevices(a.val, rd) ELSE a

(***************************************************************************)
(* const.py                                                                *)
(***************************************************************************)
DEFAULT_UPDATE_INTERVAL == 60
UPDATE_INTERVAL_OPTIONS == {10, 15, 30, 45, 60, 90, 120}
VERSION == 2        \* NatureRemoConfigFlow.VERSION

IdleFlowVars ==
    /\ entries = << >>
    /\ nextId = 1
    /\ flows = << >>
    /\ interval = << >>

(***************************************************************************)
(* SpecGet: get applied to every pair of replies within the bounds.        *)
(***************************************************************************)
ElemIds  == {"a1", "a2"}
ElemVals == {1, 2}
Elems    == [id : ElemIds, val : ElemVals]
NoIdElem == [val |-> 1]

BoundedSeq(S, n) == UNION {[1..k -> S] : k \in 0..n}

BigReplies   == {Http200(b) : b \in BoundedSeq(Elems, MaxLen)}
SmallReplies == {TransportError, Http(401), Http(500), Http200(<< >>),
                 Http200(<<NoIdElem>>), Http200(<<[id |-> "a1", val |-> 1]>>),
                 Http200(<<[id |-> "a1", val |-> 1], NoIdElem>>)}
GetInputs    == (BigReplies \X SmallReplies) \cup (SmallReplies \X BigReplies)

IdleCoord ==
    /\ setup = "idle"
    /\ data = PyNone
    /\ last_update_success = TRUE
    /\ listeners = << >>
    /\ task = << >>
    /\ notify = << >>
    /\ entities = {}
    /\ captured = << >>
    /\ platform = "none"
    /\ nfetch = 0
    /\ render = PyNone
    /\ mixed = FALSE
    /\ ret = PyNone
    /\ seen = << >>
    /\ lastGood = PyNone

InitGet ==
    /\ get_in \in GetInputs
    /\ get_out = PyNone
    /\ mig_in = PyNone
    /\ mig_out = PyNone
    /\ IdleCoord
    /\ IdleFlowVars

\* await api.get()
GetCall ==
    /\ get_out = PyNone
    /\ get_out' = Get(get_in[1], get_in[2])
    /\ UNCHANGED <<get_in, migVars, coordVars, flowVars>>

\* the next call: one of the two endpoints replies differently
GetAgain ==
    /\ get_out # PyNone
    /\ \E r \in SmallReplies :
         /\ get_in' \in {<<get_in[1], r>>, <<r, get_in[2]>>} \cap GetInputs
         /\ get_in' # get_in
    /\ get_out' = PyNone
    /\ UNCHANGED <<migVars, coordVars, flowVars>>

NextGet == GetCall \/ GetAgain

SpecGet == InitGet /\ [][NextGet]_vars

\* C9: on a successful get, each returned mapping has exactly the ids of its
\* response array as keys, maps every id to an element of the array carrying
\* that id, and for an id that occurs more than once maps it to the last
\* occurrence.
KeyedByLastOccurrence(m, arr) ==
    /\ DOMAIN m = {arr[i].id : i \in 1..Len(arr)}
    /\ \A k \in DOMAIN m :
         /\ m[k].id = k
         /\ \E i \in 1..Len(arr) :
              /\ arr[i] = m[k]
              /\ \A j \in (i+1)..Len(arr) : arr[j].id # k

C9_KeyedById ==
    (get_out # PyNone /\ IsOk(get_out)) =>
        /\ DOMAIN get_out.val = {"appliances", "devices"}
        /\ KeyedByLastOccurrence(get_out.val.appliances, get_in[1].body)
        /\ KeyedByLastOccurrence(get_out.val.devices, get_in[2].body)

HasDuplicateId(arr) ==
    \E i, j \in 1..Len(arr) : i < j /\ arr[i].id = arr[j].id /\ arr[i] # arr[j]

C9_Witness ==
    /\ get_out # PyNone
    /\ IsOk(get_out)
    /\ HasDuplicateId(get_in[1].body)
    /\ Cardinality(DOMAIN get_out.val.appliances) = 2

(***************************************************************************)
(* Spec: the cloud's replies to the coordinator's fetches.                 *)
(***************************************************************************)
EPC_POWER == 231    \* measured instantaneous power

Prop(epc, val) == [epc |-> epc, val |-> val]
Meter(sm) == [id |-> "a1", type |-> "EL_SMART_METER", smart_meter |-> sm]

MeterFull    == Meter([echonetlite_properties |->
                        <<Prop(225, 10), Prop(EPC_POWER, 450), Prop(EPC_POWER, 451)>>])
MeterNo231   == Meter([echonetlite_properties |-> <<Prop(225, 10)>>])
MeterNoBlock == [id |-> "a1", type |-> "EL_SMART_METER"]
AirCon       == [id |-> "a2", type |-> "AC"]

Remo(events) == [id |-> "d1", name |-> "Remo", newest_events |-> events]
RemoTeHu     == Remo([te |-> [val |-> 21], hu |-> [val |-> 60]])
RemoAll      == Remo([te |-> [val |-> 22], hu |-> [val |-> 61], il |-> [val |-> 100]])

ApplianceReplies == {TransportError,
                     Http200(<<MeterFull, AirCon>>), Http200(<<MeterNo231>>),
                     Http200(<<MeterNoBlock>>), Http200(<<AirCon>>)}
DeviceReplies    == {TransportError, Http(500),
                     Http200(<<RemoTeHu>>), Http200(<<RemoAll>>), Http200(<< >>)}

(***************************************************************************)
(* The refresh tasks.  "setup" is the refresh async_setup_entry awaits,    *)
(* "timer" the one the coordinator's interval timer starts, "manual" the   *)
(* one NatureRemoE.async_update requests.                                  *)
(***************************************************************************)
Tasks == {"setup", "timer", "manual"}

IdleTask == [pc |-> "idle", fetch |-> 0, appliances |-> PyNone]

Range(f) == {f[i] : i \in DOMAIN f}

LogListener == [kind |-> "log", id |-> "coordinator_update"]

\* No task is inside the synchronous notification loop.
NoSync == \A t \in Tasks : task[t].pc # "notifying"

InGet(t) == task[t].pc \in {"appliances", "devices"}

(***************************************************************************)
(* The sensor entities, sensor.py.  An entity is [kind, id]: kind "E" is   *)
(* NatureRemoE, bound to an appliance id; kinds "te", "hu", "il" are the   *)
(* temperature, humidity and illuminance sensors, bound to a device id.    *)
(***************************************************************************)
SensorKinds == {"te", "hu", "il"}

\* r[k] where r is the outcome of the subscript before it
Then(r, k) == IF IsOk(r) THEN Subscript(r.val, k) ELSE r

\* The appliance an energy entity works from, had it kept the appliance its
\* constructor was given.
EntityApplianceCaptured(e) == Ok(captured[e])

\* self._coordinator.data["appliances"][self._appliance_id]
EntityAppliance(e) == Then(Subscript(data, "appliances"), e.id)

\* next(value["val"] for value in properties if value["epc"] == 231)
FirstPower(props) ==
    IF \E i \in 1..Len(props) : props[i].epc = EPC_POWER
    THEN LET i == CHOOSE i \in 1..Len(props) :
                    /\ props[i].epc = EPC_POWER
                    /\ \A j \in 1..(i-1) : props[j].epc # EPC_POWER
         IN  Ok(props[i].val)
    ELSE Raise("StopIteration")

\* NatureRemoE.state
StateE(e) ==
    LET props == Then(Then(EntityAppliance(e), "smart_meter"), "echonetlite_properties")
    IN  IF IsOk(props) THEN FirstPower(props.val) ELSE props

\* NatureRemoTemperatureSensor.state and its humidity and illuminance twins:
\* self._coordinator.data["devices"][self._device["id"]]["newest_events"][kind]["val"]
StateDevice(e) ==
    Then(Then(Then(Then(Subscript(data, "devices"), captured[e].id),
                   "newest_events"), e.kind), "val")

State(e) == IF e.kind = "E" THEN StateE(e) ELSE StateDevice(e)

\* The listeners an entity registers when added to hass: NatureRemoE registers
\* async_write_ha_state; NatureRemoDeviceBase defines no async_added_to_hass,
\* and the sensors derived from it register nothing.
AddedToHass(e) == IF e.kind = "E" THEN {e} ELSE {}

\* What a listener reads when the coordinator calls it: coordinator_update
\* reads last_update_success, an entity's async_write_ha_state reads its state.
ListenerReads(l) ==
    IF l.kind = "log" THEN Ok(last_update_success) ELSE EntityAppliance(l)

RECURSIVE SetToSeq(_)
SetToSeq(S) ==
    IF S = {} THEN << >>
    ELSE LET x == CHOOSE x \in S : TRUE IN <<x>> \o SetToSeq(S \ {x})

\* sensor.async_setup_entry, lines 36-50: the entities built from a snapshot,
\* each with the appliance or device it is constructed with.
NewEntities(d) ==
    LET ap == d.appliances
        dv == d.devices
        E  == {[ent |-> [kind |-> "E", id |-> ap[k].id], arg |-> ap[k]] :
                 k \in {k \in DOMAIN ap : ap[k].type = "EL_SMART_METER"}}
        S  == UNION {{[ent |-> [kind |-> s, id |-> dv[k].id], arg |-> dv[k]] :
                        s \in DOMAIN dv[k].newest_events \cap SensorKinds} :
                     k \in DOMAIN dv}
    IN  E \cup S

(***************************************************************************)
(* The update method and the coordinator.                                  *)
(*                                                                         *)
(* DataUpdateCoordinator is the host's class; entry setup constructs it    *)
(* (__init__.py 71-77) with async_update_data as its update method.  A     *)
(* refresh awaits the update method; when it returns, the coordinator      *)
(* stores the result in data, sets last_update_success and calls every     *)
(* listener in turn, with no await in between; when it raises, data is     *)
(* left alone and last_update_success is cleared.                          *)
(***************************************************************************)

\* An update method that logs a failed get and returns nothing.
AsyncUpdateDataNoRaise(r) == IF IsOk(r) THEN r ELSE Ok(PyNone)

\* An update method that answers a failed get with an empty snapshot.
AsyncUpdateDataSwallow(r) ==
    IF IsOk(r) THEN r ELSE Ok([appliances |-> EmptyDict, devices |-> EmptyDict])

\* async_update_data, given what api.get gave: returns the data of a get that
\* returned, logs and re-raises the exception of one that raised.
AsyncUpdateData(r) == r

\* The appliances a get call passes to its return statement, were they kept in
\* an attribute of the api object and overwritten by another call in flight.
SharedAppliances(t) ==
    LET others == {u \in Tasks \ {t} : task[u].pc = "devices"}
        u == IF others = {} THEN t ELSE CHOOSE u \in others : TRUE
    IN  [val |-> task[u].appliances, fetch |-> task[u].fetch]

\* The appliances a get call passes to its return statement: its own local,
\* bound by its own appliances GET.
LocalAppliances(t) == [val |-> task[t].appliances, fetch |-> task[t].fetch]

ReplyFailed(reply) == reply.kind = "error" \/ reply.status >= 400

InitCoord ==
    /\ setup = "start"
    /\ data = PyNone
    /\ last_update_success = TRUE
    /\ listeners = <<LogListener>>
    /\ task = [t \in Tasks |-> IdleTask]
    /\ notify = << >>
    /\ entities = {}
    /\ captured = << >>
    /\ platform = "none"
    /\ nfetch = 0
    /\ render = PyNone
    /\ mixed = FALSE
    /\ ret = PyNone
    /\ seen = << >>
    /\ lastGood = PyNone

IdleGet ==
    /\ get_in = <<TransportError, TransportError>>
    /\ get_out = PyNone
    /\ mig_in = PyNone
    /\ mig_out = PyNone

Init == InitCoord /\ IdleGet /\ IdleFlowVars

\* A refresh begins: the update method calls api.get, which awaits the
\* appliances GET.
StartRefresh(t) ==
    /\ NoSync
    /\ task[t].pc = "idle"
    /\ nfetch < MaxFetches
    /\ nfetch' = nfetch + 1
    /\ task' = [task EXCEPT ![t] = [IdleTask EXCEPT !.pc = "appliances",
                                                    !.fetch = nfetch + 1]]
    /\ render' = PyNone

\* await coordinator.async_refresh() in async_setup_entry, line 89
SetupFirstRefresh ==
    /\ setup = "start"
    /\ StartRefresh("setup")
    /\ setup' = "refreshing"
    /\ UNCHANGED <<data, last_update_success, listeners, notify, entities, captured,
                   platform, mixed, ret, seen, lastGood, getVars, migVars, flowVars>>

\* A coordinator constructed without update_interval: the argument's default.
UpdateIntervalNone == PyNone

\* update_interval=update_interval, line 76: the timedelta of line 54, here of
\* an entry with the default interval
UpdateInterval == [seconds |-> DEFAULT_UPDATE_INTERVAL]

\* the coordinator's interval timer fires; it is armed once a refresh has
\* ended, whether it failed or not, when the coordinator has an interval
TimerTick ==
    /\ ~IsNone(UpdateInterval)
    /\ setup \in {"forwarding", "done", "failed"}
    /\ StartRefresh("timer")
    /\ UNCHANGED <<setup, data, last_update_success, listeners, notify, entities,
                   captured, platform, mixed, ret, seen, lastGood, getVars, migVars, flowVars>>

\* NatureRemoE.async_update: await self._coordinator.async_request_refresh()
ManualUpdate(e) ==
    /\ e \in entities
    /\ e.kind = "E"
    /\ StartRefresh("manual")
    /\ UNCHANGED <<setup, data, last_update_success, listeners, notify, entities,
                   captured, platform, mixed, ret, seen, lastGood, getVars, migVars, flowVars>>

\* The update method of task t has ended, get having given raw: the rest of
\* the refresh, up to the first listener call.  A refresh that failed inside
\* async_setup_entry either raises into it (lines 91-93 log and re-raise) or
\* is absorbed by the coordinator, and setup goes on.
FinishRefresh(t, raw, aFailed, dFailed) ==
    LET r == AsyncUpdateData(raw)
    IN  /\ ret' = [get |-> raw, update |-> r,
            aFailed |-> aFailed, dFailed |-> dFailed]
        /\ lastGood' = IF IsOk(raw) THEN raw.val ELSE lastGood
        /\ last_update_success' = IsOk(r)
        /\ data' = IF IsOk(r) THEN r.val ELSE data
        /\ notify' = IF IsOk(r) THEN listeners ELSE << >>
        /\ seen' = IF IsOk(r) THEN [l \in Range(listeners) |-> PyNone] ELSE seen
        /\ task' = [task EXCEPT ![t] =
                      [IdleTask EXCEPT !.pc = IF IsOk(r) /\ listeners # << >>
                                              THEN "notifying" ELSE "idle"]]
        /\ IF t # "setup" THEN setup' = setup
           ELSE IF IsOk(r) THEN setup' = "forwarding"
           ELSE setup' \in {"failed", "forwarding"}
        /\ render' = PyNone

\* The appliances GET of task t's get call is answered.
AppliancesReply(t, reply) ==
    /\ NoSync
    /\ task[t].pc = "appliances"
    /\ LET a == TryGet(reply)
       IN  IF IsOk(a)
           THEN /\ task' = [task EXCEPT ![t].pc = "devices", ![t].appliances = a.val]
                /\ render' = PyNone
                /\ UNCHANGED <<setup, data, last_update_success, notify, mixed, ret,
                               seen, lastGood>>
           ELSE /\ FinishRefresh(t, a, TRUE, FALSE)
                /\ UNCHANGED mixed
    /\ UNCHANGED <<listeners, entities, captured, platform, nfetch, getVars, migVars, flowVars>>

\* The devices GET of task t's get call is answered.
DevicesReply(t, reply) ==
    /\ NoSync
    /\ task[t].pc = "devices"
    /\ LET ap  == LocalAppliances(t)
           raw == GetDevices(ap.val, reply)
       IN  /\ FinishRefresh(t, raw, FALSE, ReplyFailed(reply))
           /\ mixed' = IF IsOk(AsyncUpdateData(raw))
                       THEN ap.fetch # task[t].fetch ELSE mixed
    /\ UNCHANGED <<listeners, entities, captured, platform, nfetch, getVars, migVars, flowVars>>

\* The coordinator calls the next listener of the running notification.
NotifyStep(t) ==
    /\ task[t].pc = "notifying"
    /\ LET l == Head(notify)
       IN  /\ seen' = [seen EXCEPT ![l] = ListenerReads(l)]
           /\ render' = IF l.kind = "E" THEN [entity |-> l, result |-> State(l)]
                        ELSE PyNone
    /\ notify' = Tail(notify)
    /\ task' = [task EXCEPT ![t].pc = IF Tail(notify) = << >> THEN "idle"
                                      ELSE "notifying"]
    /\ UNCHANGED <<setup, data, last_update_success, listeners, entities, captured,
                   platform, nfetch, mixed, ret, lastGood, getVars, migVars, flowVars>>

\* An entry setup that stores the coordinator and forwards to the platforms
\* without awaiting the first refresh.
ForwardReadyEarly == setup \in {"start", "refreshing", "forwarding"}

\* async_setup_entry reaches lines 96-106 only past the await of line 89: the
\* first refresh has ended and has not raised into the setup.
ForwardReady == setup = "forwarding"

\* async_setup_entry lines 96-108 and sensor.async_setup_entry: the platform
\* reads coordinator.data, builds the entities and adds them to hass.
SensorSetup ==
    /\ NoSync
    /\ ForwardReady
    /\ setup' = "done"
    /\ IF IsOk(Subscript(data, "appliances")) /\ IsOk(Subscript(data, "devices"))
       THEN LET new == NewEntities(data)
                ents == {n.ent : n \in new}
            IN  /\ platform' = "ready"
                /\ entities' = ents
                /\ captured' = [e \in ents |->
                                  (CHOOSE n \in new : n.ent = e).arg]
                /\ listeners' = listeners \o
                                SetToSeq(UNION {AddedToHass(e) : e \in ents})
       ELSE /\ platform' = "crashed"
            /\ UNCHANGED <<entities, captured, listeners>>
    /\ render' = PyNone
    /\ UNCHANGED <<data, last_update_success, task, notify, nfetch, mixed, ret,
                   seen, lastGood, getVars, migVars, flowVars>>

\* hass reads an entity's state (on adding it, or on a state write).
ReadState(e) ==
    /\ NoSync
    /\ e \in entities
    /\ render' = [entity |-> e, result |-> State(e)]
    /\ UNCHANGED <<setup, data, last_update_success, listeners, task, notify,
                   entities, captured, platform, nfetch, mixed, ret, seen,
                   lastGood, getVars, migVars, flowVars>>

\* async_unload_entry: the platforms are unloaded, every entity is removed
\* from hass and its async_on_remove callbacks run.
UnloadEntry ==
    /\ NoSync
    /\ platform = "ready"
    /\ platform' = "unloaded"
    /\ entities' = {}
    /\ captured' = << >>
    /\ listeners' = SelectSeq(listeners, LAMBDA l : l \notin entities)
    /\ render' = PyNone
    /\ UNCHANGED <<setup, data, last_update_success, task, notify, nfetch,
                   mixed, ret, seen, lastGood, getVars, migVars, flowVars>>

AllEntities == {[kind |-> "E", id |-> "a1"]} \cup
               {[kind |-> k, id |-> "d1"] : k \in SensorKinds}

Next ==
    \/ SetupFirstRefresh
    \/ TimerTick
    \/ \E e \in AllEntities : ManualUpdate(e)
    \/ \E t \in Tasks, reply \in ApplianceReplies : AppliancesReply(t, reply)
    \/ \E t \in Tasks, reply \in DeviceReplies : DevicesReply(t, reply)
    \/ \E t \in Tasks : NotifyStep(t)
    \/ SensorSetup
    \/ \E e \in AllEntities : ReadState(e)
    \/ UnloadEntry

Spec == Init /\ [][Next]_vars

(***************************************************************************)
(* Properties of Spec.                                                     *)
(***************************************************************************)

\* C1: after every refresh the coordinator's snapshot is the payload of the
\* successful get that ended last, or the initial snapshot when none has
\* succeeded; a failed refresh leaves it as it was.
C1_SnapshotIsLastGood == data = lastGood

\* a refresh has failed after one had succeeded, and the snapshot is kept
C1_Witness ==
    /\ ret # PyNone
    /\ ~IsOk(ret.get)
    /\ data # PyNone
    /\ NoSync

\* C2: a get call in which either GET failed raises, returns no snapshot, and
\* the step that ends it leaves coordinator.data as it was: appliances
\* obtained before a devices failure are neither returned nor merged.
C2_AllOrNothing ==
    [][\A t \in Tasks :
         (InGet(t) /\ task'[t].pc \notin {"appliances", "devices"}
                   /\ (ret'.aFailed \/ ret'.dFailed))
         => (ret'.get.kind = "raise" /\ data' = data)]_vars

\* the devices GET has failed after the appliances GET succeeded, with a
\* snapshot of an earlier refresh in place
C2_Witness ==
    /\ ret # PyNone
    /\ ret.dFailed
    /\ ret.get.kind = "raise"
    /\ data # PyNone

\* C3: whatever the interleaving of a manual and a timer refresh, both halves
\* of coordinator.data are of one fetch.
C3_NoMixedSnapshot == ~mixed

\* one of two overlapping refreshes has just swapped the snapshot while the
\* other, its appliances bound, awaits its devices
C3_Witness ==
    \E t, u \in {"timer", "manual"} :
        /\ t # u
        /\ task[t].pc = "notifying"
        /\ task[u].pc = "devices"

\* C4: every listener called since the last snapshot swap read the snapshot
\* that swap installed: an entity's callback reads its appliance from the new
\* coordinator.data, coordinator_update reads last_update_success as set by
\* the successful refresh.
C4_ListenersSeeNewSnapshot ==
    \A l \in DOMAIN seen :
        seen[l] # PyNone =>
            IF l.kind = "log" THEN seen[l] = Ok(TRUE)
            ELSE seen[l] = Then(Subscript(data, "appliances"), l.id)

\* an energy entity was called back after a swap that replaced the appliance
\* it was constructed with
C4_Witness ==
    \E l \in DOMAIN seen :
        /\ l \in entities
        /\ seen[l] # PyNone
        /\ IsOk(seen[l])
        /\ seen[l].val # captured[l]

\* C7 as claimed: the energy entity's state is the value of the first
\* code-231 property of its appliance's smart-meter block, and when the
\* appliance, the block or a code-231 entry is absent the state read does not
\* raise.
HasPower(d, id) ==
    /\ id \in DOMAIN d.appliances
    /\ "smart_meter" \in DOMAIN d.appliances[id]
    /\ \E i \in DOMAIN d.appliances[id].smart_meter.echonetlite_properties :
         d.appliances[id].smart_meter.echonetlite_properties[i].epc = EPC_POWER

C7_EnergyStateOrUnavailable ==
    (render # PyNone /\ render.entity.kind = "E") =>
        IF HasPower(data, render.entity.id)
        THEN LET props == data.appliances[render.entity.id]
                              .smart_meter.echonetlite_properties
             IN  /\ IsOk(render.result)
                 /\ \E i \in DOMAIN props :
                      /\ props[i].epc = EPC_POWER
                      /\ render.result.val = props[i].val
                      /\ \A j \in 1..(i-1) : props[j].epc # EPC_POWER
        ELSE render.result.kind # "raise"

\* C8 as claimed: a temperature, humidity or illuminance entity's state is
\* the value of its kind's newest event for its device, and when the device
\* or the event key is absent the state read does not raise.
HasEvent(d, id, k) ==
    /\ id \in DOMAIN d.devices
    /\ k \in DOMAIN d.devices[id].newest_events

C8_SensorStateOrUnavailable ==
    (render # PyNone /\ render.entity.kind \in SensorKinds) =>
        IF HasEvent(data, render.entity.id, render.entity.kind)
        THEN render.result =
               Ok(data.devices[render.entity.id].newest_events[render.entity.kind].val)
        ELSE render.result.kind # "raise"

\* C10 as claimed: every entity added to hass and not removed is a listener
\* of the coordinator, and no removed entity is.
C10_EntitiesAreListeners ==
    /\ \A e \in entities : e \in Range(listeners)
    /\ \A l \in Range(listeners) : l.kind # "log" => l \in entities

\* C12: on a cold start no entity exists, no state is served and the sensor
\* platform has not been entered until the refresh awaited by async_setup_entry
\* has ended; whenever an entity exists, a fetch has succeeded and the
\* coordinator holds its snapshot.
C12_FirstRefreshBeforeEntities ==
    /\ (entities # {} \/ render # PyNone \/ platform # "none") =>
           /\ setup = "done"
           /\ ret # PyNone
           /\ ~InGet("setup")
    /\ entities # {} => data # PyNone

\* an entity built after the first refresh serves a value
C12_Witness ==
    /\ setup = "done"
    /\ render # PyNone
    /\ render.entity \in entities
    /\ IsOk(render.result)

\* C13 as claimed: with no refresh having succeeded, the sensor platform's
\* setup reads the coordinator's initial snapshot without raising.
C13_InitialSnapshotTolerated == platform # "crashed"

\* C14: the update method gives its caller exactly what get gave it, a raised
\* exception included, and once a refresh has ended last_update_success tells
\* whether the get of the refresh that ended last returned.
C14_OutcomeRecorded ==
    ret # PyNone =>
        /\ ret.update = ret.get
        /\ last_update_success = IsOk(ret.get)

\* a refresh has failed after an earlier one succeeded: the exception reached
\* the coordinator and the flag is cleared
C14_Witness ==
    /\ ret # PyNone
    /\ ret.update.kind = "raise"
    /\ ~last_update_success
    /\ lastGood # PyNone

(***************************************************************************)
(* SpecPoll: the polling cycle of one entry, for ever.  The refreshes are   *)
(* the one of the setup and those of the timer.  Fairness: the timer fires *)
(* when armed, a GET is answered or fails (the session's timeout), and the *)
(* coordinator's notification loop runs to its end.                        *)
(***************************************************************************)

\* nfetch only tells the get calls of one run apart: with none in flight the
\* count starts over, so that the cycle is not cut short by MaxFetches.
CountRestart ==
    /\ nfetch = MaxFetches
    /\ \A t \in Tasks : task[t].pc = "idle"
    /\ nfetch' = 0
    /\ render' = PyNone
    /\ UNCHANGED <<setup, data, last_update_success, listeners, task, notify,
                   entities, captured, platform, mixed, ret, seen, lastGood,
                   getVars, migVars, flowVars>>

AppliancesAnswered == \E t \in Tasks, reply \in ApplianceReplies : AppliancesReply(t, reply)
DevicesAnswered    == \E t \in Tasks, reply \in DeviceReplies : DevicesReply(t, reply)
ListenerCalled     == \E t \in Tasks : NotifyStep(t)

NextPoll ==
    \/ SetupFirstRefresh
    \/ TimerTick
    \/ AppliancesAnswered
    \/ DevicesAnswered
    \/ ListenerCalled
    \/ SensorSetup
    \/ CountRestart

SpecPoll ==
    /\ Init
    /\ [][NextPoll]_vars
    /\ WF_vars(TimerTick)
    /\ WF_vars(AppliancesAnswered)
    /\ WF_vars(DevicesAnswered)
    /\ WF_vars(ListenerCalled)
    /\ WF_vars(CountRestart)

\* C11: once a refresh has failed, the update method is invoked again; and if
\* the cloud keeps answering some GETs of each endpoint with success, a later
\* refresh succeeds and the coordinator holds the snapshot of that fetch.
AppliancesSucceed == AppliancesAnswered /\ \E t \in Tasks : task'[t].pc = "devices"
DevicesSucceed    == DevicesAnswered /\ last_update_success'

Invoked == \E t \in Tasks : InGet(t)
Fresh   == last_update_success /\ ret # PyNone /\ IsOk(ret.get) /\ data = ret.get.val

C11_FailedRefreshIsRetried ==
    /\ ~last_update_success ~> Invoked
    /\ (SF_vars(AppliancesSucceed) /\ SF_vars(DevicesSucceed))
          => (~last_update_success ~> Fresh)

\* a refresh has failed and the timer's next tick has called the update
\* method again
C11_Witness ==
    /\ ~last_update_success
    /\ ret # PyNone
    /\ ~IsOk(ret.get)
    /\ task["timer"].pc = "appliances"

(***************************************************************************)
(* SpecFlow: the config flow, config_flow.py, and the entries it creates.  *)
(*                                                                         *)
(* hass keeps the entries of the domain in creation order; an entry is     *)
(* [version, data, state].  The flow manager runs any number of flows; a   *)
(* flow is suspended while _validate_token awaits the two GETs of api.get. *)
(* A form's submission is validated against the form's data_schema by the  *)
(* flow manager before the step is called with it.                         *)
(***************************************************************************)
Flows       == {1, 2}
Tokens      == {"good", "bad"}
ErrorStates == {"migration_error", "setup_error"}

\* intervals a client may submit; 7 and 300 are outside the allow-list
IntervalInputs == {7, 10, 60, 300}

\* what the cloud answers a GET made with a token
ValidationReplies(token) ==
    IF token = "good"
    THEN {Http200(<< >>), Http200(<<NoIdElem>>), Http(500), TransportError}
    ELSE {Http(401), TransportError}

IsAuthFailure(reply) == reply.kind = "http" /\ reply.status \in {401, 403}

IdleFlow == [pc |-> "idle", step |-> "none", token |-> "", ival |-> 0, entry |-> 0,
             appliances |-> PyNone, errors |-> "none", result |-> "none",
             cause |-> "none"]

\* a data_schema that takes any integer for the interval
IntervalSchemaAny(ival) == ival \in Int

\* vol.Required(_CONF_UPDATE_INTERVAL, ...): vol.In(UPDATE_INTERVAL_OPTIONS)
IntervalSchema(ival) == ival \in UPDATE_INTERVAL_OPTIONS

\* data of the entry the user and reconfigure steps write
EntryData(token, ival) == [access_token |-> token, update_interval |-> ival]

WithoutEntry(es, id) == [i \in DOMAIN es \ {id} |-> es[i]]

Min(S) == CHOOSE x \in S : \A y \in S : x <= y

\* async_step_user, lines 79-96: with entries present, the first one in an
\* error state is removed and the step goes on; with none in an error state
\* the flow aborts.
UserEntriesCheck(es) ==
    LET bad == {i \in DOMAIN es : es[i].state \in ErrorStates}
    IN  IF DOMAIN es = {} THEN [abort |-> FALSE, entries |-> es]
        ELSE IF bad # {} THEN [abort |-> FALSE, entries |-> WithoutEntry(es, Min(bad))]
        ELSE [abort |-> TRUE, entries |-> es]

\* A _validate_token that logs the exception of get and does not raise.
ValidateTokenLax(raw) == Ok(PyNone)

\* _validate_token, given what api.get gave: any exception becomes InvalidAuth
ValidateToken(raw) == IF IsOk(raw) THEN Ok(PyNone) ELSE Raise("InvalidAuth")

\* the except clauses of the steps: InvalidAuth, then Exception
StepError(exc) == IF exc = "InvalidAuth" THEN "invalid_auth" ELSE "unknown"

\* What the host's async_update_entry does with the calls of one migration:
\* it makes the update of line 49; or it raises there and makes the update of
\* line 64; or it raises at both.
UpdateOutcomes == {"updates", "raises", "raises_twice"}

\* {**entry.data, _CONF_UPDATE_INTERVAL: _DEFAULT_UPDATE_INTERVAL.seconds}
WithDefaultInterval(d) ==
    [k \in DOMAIN d \cup {"update_interval"} |->
       IF k = "update_interval" THEN DEFAULT_UPDATE_INTERVAL ELSE d[k]]

\* async_migrate_entry.  For a version 1 entry it asks the host to store the
\* data with the default interval, version 2 and state NOT_LOADED, and returns
\* True; when that call raises, the except clause asks the host to mark the
\* entry SETUP_ERROR, and the hook returns False whether or not that second
\* call raises too.  Any other entry is left alone and the hook returns False.
AsyncMigrateEntry(e, upd) ==
    IF e.version = 1
    THEN IF upd = "updates"
         THEN [ok |-> TRUE,
               entry |-> [version |-> 2, data |-> WithDefaultInterval(e.data),
                          state |-> "not_loaded"]]
         ELSE [ok |-> FALSE,
               entry |-> IF upd = "raises" THEN [e EXCEPT !.state = "setup_error"]
                         ELSE e]
    ELSE [ok |-> FALSE, entry |-> e]

\* async_setup_entry, line 54:
\* entry.data.get(_CONF_UPDATE_INTERVAL, _DEFAULT_UPDATE_INTERVAL.seconds)
SetupInterval(d) ==
    IF "update_interval" \in DOMAIN d THEN d.update_interval
    ELSE DEFAULT_UPDATE_INTERVAL

Done(reason) == [IdleFlow EXCEPT !.pc = "done", !.result = reason]

OldEntry == [version |-> 1, data |-> [access_token |-> "good"], state |-> "not_loaded"]

InitFlow ==
    /\ \/ entries = << >> /\ nextId = 1
       \/ entries = [i \in {1} |-> OldEntry] /\ nextId = 2
    /\ flows = [f \in Flows |-> IdleFlow]
    /\ interval = << >>
    /\ IdleGet
    /\ IdleCoord

Drop(es) == [i \in DOMAIN interval \cap DOMAIN es |-> interval[i]]

\* async_step_user entered by flow f with entries es: user_input is None when
\* the flow starts, and the submitted form otherwise.
StepUser(f, hasInput, token, ival, es) ==
    LET chk == UserEntriesCheck(es)
    IN  /\ entries' = chk.entries
        /\ interval' = Drop(chk.entries)
        /\ flows' = [flows EXCEPT ![f] =
              IF chk.abort THEN Done("abort:already_configured")
              ELSE IF hasInput
                   THEN [IdleFlow EXCEPT !.pc = "validating_a", !.step = "user",
                                         !.token = token, !.ival = ival]
              ELSE [IdleFlow EXCEPT !.pc = "form", !.step = "user"]]
        /\ UNCHANGED nextId

\* a flow is started from the UI
UserInit(f) ==
    /\ flows[f].pc = "idle"
    /\ StepUser(f, FALSE, "", 0, entries)
    /\ UNCHANGED <<getVars, migVars, coordVars>>

\* a form is submitted with an interval its data_schema refuses; the flow
\* manager answers with an error and the step is not called
SubmitRefused(f, ival) ==
    /\ flows[f].pc = "form"
    /\ ~IntervalSchema(ival)
    /\ flows' = [flows EXCEPT ![f].errors = "invalid_data"]
    /\ UNCHANGED <<entries, nextId, interval, getVars, migVars, coordVars>>

\* the user form is submitted
UserSubmit(f, token, ival) ==
    /\ flows[f].pc = "form"
    /\ flows[f].step = "user"
    /\ IntervalSchema(ival)
    /\ StepUser(f, TRUE, token, ival, entries)
    /\ UNCHANGED <<getVars, migVars, coordVars>>

\* async_step_import, started by async_setup for a YAML configuration;
\* async_setup runs once per start of hass, so one import flow runs at a time
ImportStart(f, token) ==
    /\ flows[f].pc = "idle"
    /\ \A g \in Flows : flows[g].step # "import"
    /\ flows' = [flows EXCEPT ![f] =
          IF DOMAIN entries # {} THEN Done("abort:already_configured")
          ELSE IF token = "" THEN Done("abort:invalid_yaml_config")
          ELSE [IdleFlow EXCEPT !.pc = "validating_a", !.step = "import",
                                !.token = token, !.ival = DEFAULT_UPDATE_INTERVAL]]
    /\ UNCHANGED <<entries, nextId, interval, getVars, migVars, coordVars>>

\* async_step_reconfigure for the entry id of the flow's context
StepReconfigure(f, id, hasInput, token, ival) ==
    IF id \notin DOMAIN entries
    THEN /\ flows' = [flows EXCEPT ![f] = Done("abort:not_found")]
         /\ UNCHANGED <<entries, nextId, interval>>
    ELSE IF entries[id].state \in ErrorStates
    THEN StepUser(f, hasInput, token, ival, WithoutEntry(entries, id))
    ELSE /\ flows' = [flows EXCEPT ![f] =
               IF hasInput
               THEN [IdleFlow EXCEPT !.pc = "validating_a", !.step = "reconfigure",
                                     !.token = token, !.ival = ival, !.entry = id]
               ELSE [IdleFlow EXCEPT !.pc = "form", !.step = "reconfigure",
                                     !.entry = id]]
         /\ UNCHANGED <<entries, nextId, interval>>

ReconfigureInit(f, id) ==
    /\ flows[f].pc = "idle"
    /\ StepReconfigure(f, id, FALSE, "", 0)
    /\ UNCHANGED <<getVars, migVars, coordVars>>

ReconfigureSubmit(f, token, ival) ==
    /\ flows[f].pc = "form"
    /\ flows[f].step = "reconfigure"
    /\ IntervalSchema(ival)
    /\ StepReconfigure(f, flows[f].entry, TRUE, token, ival)
    /\ UNCHANGED <<getVars, migVars, coordVars>>

\* _validate_token has ended for flow f, api.get having given raw: the rest
\* of the step.  The flow's cause records how the get ended: "none" when it
\* returned, else whether the failure was one of authentication.
ValidationEnds(f, raw, cause) ==
    LET fl == flows[f]
        v  == ValidateToken(raw)
        c  == IF IsOk(raw) THEN "none" ELSE cause
        failed == [IdleFlow EXCEPT !.errors = StepError(v.exc), !.cause = c]
    IN  IF fl.step = "reconfigure"
        THEN IF IsOk(v) /\ fl.entry \in DOMAIN entries
             THEN /\ entries' = [entries EXCEPT ![fl.entry].data =
                                                    EntryData(fl.token, fl.ival),
                                                ![fl.entry].state = "not_loaded"]
                  /\ interval' = Drop(WithoutEntry(entries, fl.entry))
                  /\ flows' = [flows EXCEPT ![f] =
                        [Done("abort:reconfigure_successful") EXCEPT !.cause = c]]
                  /\ UNCHANGED nextId
             ELSE /\ flows' = [flows EXCEPT ![f] =
                        [(IF IsOk(v) THEN [IdleFlow EXCEPT !.errors = "unknown",
                                                           !.cause = c]
                          ELSE failed)
                         EXCEPT !.pc = "form", !.step = "reconfigure",
                                !.entry = fl.entry]]
                  /\ UNCHANGED <<entries, nextId, interval>>
        ELSE IF IsOk(v)
             THEN /\ nextId <= MaxEntries
                  /\ entries' = [i \in DOMAIN entries \cup {nextId} |->
                                   IF i = nextId
                                   THEN [version |-> VERSION,
                                         data |-> EntryData(fl.token, fl.ival),
                                         state |-> "not_loaded"]
                                   ELSE entries[i]]
                  /\ nextId' = nextId + 1
                  /\ flows' = [flows EXCEPT ![f] =
                        [Done("create_entry") EXCEPT !.cause = c]]
                  /\ UNCHANGED interval
             ELSE /\ flows' = [flows EXCEPT ![f] =
                        IF fl.step = "user"
                        THEN [failed EXCEPT !.pc = "form", !.step = "user"]
                        ELSE [failed EXCEPT !.pc = "done",
                                            !.result = "abort:" \o StepError(v.exc)]]
                  /\ UNCHANGED <<entries, nextId, interval>>

\* the appliances GET of flow f's validation is answered
ValidateAppliances(f, reply) ==
    /\ flows[f].pc = "validating_a"
    /\ reply \in ValidationReplies(flows[f].token)
    /\ LET a == TryGet(reply)
       IN  IF IsOk(a)
           THEN /\ flows' = [flows EXCEPT ![f].pc = "validating_d",
                                          ![f].appliances = a.val]
                /\ UNCHANGED <<entries, nextId, interval>>
           ELSE ValidationEnds(f, a, IF IsAuthFailure(reply) THEN "auth" ELSE "other")
    /\ UNCHANGED <<getVars, migVars, coordVars>>

\* the devices GET of flow f's validation is answered
ValidateDevices(f, reply) ==
    /\ flows[f].pc = "validating_d"
    /\ reply \in ValidationReplies(flows[f].token)
    /\ ValidationEnds(f, GetDevices(flows[f].appliances, reply),
                      IF IsAuthFailure(reply) THEN "auth" ELSE "other")
    /\ UNCHANGED <<getVars, migVars, coordVars>>

\* the flow manager drops a finished flow
FlowEnd(f) ==
    /\ flows[f].pc = "done"
    /\ flows' = [flows EXCEPT ![f] = IdleFlow]
    /\ UNCHANGED <<entries, nextId, interval, getVars, migVars, coordVars>>

\* hass migrates an entry whose version is not the flow's VERSION; an entry
\* whose hook returned False is put in state MIGRATION_ERROR
MigrateEntry(id) ==
    /\ id \in DOMAIN entries
    /\ entries[id].state = "not_loaded"
    /\ entries[id].version # VERSION
    /\ \E upd \in UpdateOutcomes :
         LET r == AsyncMigrateEntry(entries[id], upd)
         IN  entries' = [entries EXCEPT ![id] =
                           IF r.ok THEN r.entry
                           ELSE [r.entry EXCEPT !.state = "migration_error"]]
    /\ UNCHANGED <<nextId, flows, interval, getVars, migVars, coordVars>>

\* hass sets an entry up: async_setup_entry builds the coordinator with the
\* entry's interval; the setup succeeds or fails.
SetupEntry(id) ==
    /\ id \in DOMAIN entries
    /\ entries[id].state = "not_loaded"
    /\ entries[id].version = VERSION
    /\ interval' = [i \in DOMAIN interval \cup {id} |->
                      IF i = id THEN SetupInterval(entries[id].data) ELSE interval[i]]
    /\ \E st \in {"loaded", "setup_error"} :
         entries' = [entries EXCEPT ![id].state = st]
    /\ UNCHANGED <<nextId, flows, getVars, migVars, coordVars>>

EntryIds == 1..MaxEntries

NextFlow ==
    \/ \E f \in Flows : UserInit(f)
    \/ \E f \in Flows, ival \in IntervalInputs : SubmitRefused(f, ival)
    \/ \E f \in Flows, token \in Tokens, ival \in IntervalInputs :
         UserSubmit(f, token, ival)
    \/ \E f \in Flows, token \in Tokens \cup {""} : ImportStart(f, token)
    \/ \E f \in Flows, id \in EntryIds : ReconfigureInit(f, id)
    \/ \E f \in Flows, token \in Tokens, ival \in IntervalInputs :
         ReconfigureSubmit(f, token, ival)
    \/ \E f \in Flows, reply \in ValidationReplies("good") \cup ValidationReplies("bad") :
         ValidateAppliances(f, reply)
    \/ \E f \in Flows, reply \in ValidationReplies("good") \cup ValidationReplies("bad") :
         ValidateDevices(f, reply)
    \/ \E f \in Flows : FlowEnd(f)
    \/ \E id \in EntryIds : MigrateEntry(id)
    \/ \E id \in EntryIds : SetupEntry(id)

SpecFlow == InitFlow /\ [][NextFlow]_vars

\* C5: every coordinator's update interval, and every stored entry's, is in
\* the allow-list: a submission with any other interval is refused by the
\* form's schema and reaches no entry.
C5_IntervalInAllowList ==
    /\ \A id \in DOMAIN interval : interval[id] \in UPDATE_INTERVAL_OPTIONS
    /\ \A id \in DOMAIN entries :
         "update_interval" \in DOMAIN entries[id].data =>
             entries[id].data.update_interval \in UPDATE_INTERVAL_OPTIONS
    /\ \A f \in Flows :
         flows[f].pc \in {"validating_a", "validating_d"} =>
             flows[f].ival \in UPDATE_INTERVAL_OPTIONS

\* a submission was refused for its interval while a coordinator runs with an
\* interval a user chose and another with the migrated default
C5_Witness ==
    /\ \E f \in Flows : flows[f].errors = "invalid_data"
    /\ \E id \in DOMAIN interval : interval[id] = 10
    /\ \E id \in DOMAIN interval : interval[id] = DEFAULT_UPDATE_INTERVAL

\* C6 as claimed: a validation failure is reported as invalid_auth only when
\* it was an authentication failure, and any other failure as unknown.
C6_AuthDistinctFromUnknown ==
    \A f \in Flows :
        /\ flows[f].errors = "invalid_auth" => flows[f].cause = "auth"
        /\ flows[f].cause = "other" => flows[f].errors = "unknown"

\* C16 as claimed: at most one stored entry is in a state other than an
\* error state, whatever the interleaving of the flows.
Usable(es) == {id \in DOMAIN es : es[id].state \notin ErrorStates}

C16_AtMostOneUsableEntry == Cardinality(Usable(entries)) <= 1

\* C17: a step whose validation get failed leaves every stored entry and
\* every coordinator as they were (no entry created, no data written, no
\* reload), and a step of the flows that creates an entry or writes an
\* entry's data is one that ends a validation whose get returned.
Validating(fl) == fl.pc \in {"validating_a", "validating_d"}

EndsValidation(f) == Validating(flows[f]) /\ ~Validating(flows'[f])

Written ==
    {id \in DOMAIN entries' :
        \/ id \notin DOMAIN entries
        \/ /\ entries'[id].version = entries[id].version
           /\ entries'[id].data # entries[id].data}

C17_NoEntryFromFailedValidation ==
    [][/\ \A f \in Flows :
            (EndsValidation(f) /\ flows'[f].cause # "none") =>
                (entries' = entries /\ interval' = interval)
       /\ Written # {} =>
            \E f \in Flows :
                /\ EndsValidation(f)
                /\ flows'[f].cause = "none"
                /\ \A id \in Written :
                     entries'[id].data = EntryData(flows[f].token, flows[f].ival)]_vars

\* a reconfigure step's validation has failed and the entry it was for keeps
\* the token and interval it had
C17_Witness ==
    \E f \in Flows :
        /\ flows[f].step = "reconfigure"
        /\ flows[f].errors = "invalid_auth"
        /\ flows[f].entry \in DOMAIN entries
        /\ entries[flows[f].entry].data = EntryData("good", 10)
        /\ flows[f].entry \in DOMAIN interval

(***************************************************************************)
(* SpecMigrate: async_migrate_entry applied to stored entries of every     *)
(* version, and applied again to the entry it leaves.                      *)
(***************************************************************************)
Versions == {1, 2, 3}

StoredData == {[access_token |-> "good"],
               [access_token |-> "good", update_interval |-> 30],
               [access_token |-> "good", cool_temperature |-> 28]}

MigrateInputs ==
    [entry  : [version : Versions, data : StoredData,
               state : {"not_loaded", "loaded", "setup_error"}],
     update : UpdateOutcomes]

InitMigrate ==
    /\ mig_in \in MigrateInputs
    /\ mig_out = PyNone
    /\ get_in = <<TransportError, TransportError>>
    /\ get_out = PyNone
    /\ IdleCoord
    /\ IdleFlowVars

\* await async_migrate_entry(hass, entry)
MigrateCall ==
    /\ mig_out = PyNone
    /\ mig_out' = AsyncMigrateEntry(mig_in.entry, mig_in.update)
    /\ UNCHANGED <<mig_in, getVars, coordVars, flowVars>>

\* the hook is called again, with the entry the last call left
MigrateAgain ==
    /\ mig_out # PyNone
    /\ \E upd \in UpdateOutcomes : mig_in' = [entry |-> mig_out.entry, update |-> upd]
    /\ mig_in' # mig_in
    /\ mig_out' = PyNone
    /\ UNCHANGED <<getVars, coordVars, flowVars>>

NextMigrate == MigrateCall \/ MigrateAgain

SpecMigrate == InitMigrate /\ [][NextMigrate]_vars

\* C15 as claimed: a migrated version 1 entry has version 2 and its old data
\* with update_interval 60 added and every other key as it was; an entry of
\* any other version keeps its data and version; migrating the migrated entry
\* changes neither.
SameConfig(a, b) == a.version = b.version /\ a.data = b.data

C15_MigrationIsVersionKeyedTransform ==
    mig_out # PyNone =>
        LET old == mig_in.entry
            new == mig_out.entry
        IN  /\ IF old.version = 1
               THEN /\ new.version = 2
                    /\ DOMAIN new.data = DOMAIN old.data \cup {"update_interval"}
                    /\ new.data.update_interval = DEFAULT_UPDATE_INTERVAL
                    /\ \A k \in DOMAIN old.data \ {"update_interval"} :
                         new.data[k] = old.data[k]
               ELSE SameConfig(new, old)
            /\ \A upd \in UpdateOutcomes :
                 SameConfig(AsyncMigrateEntry(new, upd).entry, new)

====
